---- MODULE Spec2Model ----
(***************************************************************************)
(* The terminal relay of src/index.js: browser sockets (downstream)        *)
(* authenticate with a shared password and have their session-control      *)
(* events forwarded over one socket.io client connection (termuxSocket,    *)
(* upstream) to the Termux backend; backend output and link status are     *)
(* broadcast back with io.emit.  Every handler runs to completion on the   *)
(* Node event loop, so each handler is one atomic action.                  *)
(***************************************************************************)
EXTENDS Integers, Sequences, FiniteSets

\* ---- bounds of the model -------------------------------------------------
MaxConns == 2        \* downstream sockets accepted during one run
MaxAuth == 2         \* authentication responses emitted per socket
MaxBuf == 1          \* packets held in termuxSocket's send buffer

Conns == 1..MaxConns
\* the session ids clients use
Sessions == {1, 2}

\* ---- program constants ---------------------------------------------------
PASSWORD == "123456789"

\* ---- payloads ------------------------------------------------------------
\* A payload is what the handler receives as `data`.  defined = FALSE is a
\* missing payload (undefined); a field the object does not carry reads as
\* "undefined" (strings) or 0 (session_id).
Undefined ==
    [defined |-> FALSE, password |-> "undefined", session_id |-> 0,
     connected |-> "undefined", message |-> "undefined"]

Obj(pw, sid, con, msg) ==
    [defined |-> TRUE, password |-> pw, session_id |-> sid,
     connected |-> con, message |-> msg]

EmptyObj == Obj("undefined", 0, "undefined", "undefined")

\* what a browser may send with 'authenticate'
AuthPayloads ==
    {Undefined, EmptyObj,
     Obj(PASSWORD, 0, "undefined", "undefined"),
     Obj("wrong", 0, "undefined", "undefined")}

\* what a browser may send with a control event, and the backend with
\* 'output': an object without session_id, or one naming a session
SessionPayloads ==
    {EmptyObj}
      \cup {Obj("undefined", s, "undefined", "undefined") : s \in Sessions}

ControlEvents == {"new_session", "input", "resize", "signal", "close_session"}

Event(n, d) == [name |-> n, data |-> d]

AuthSuccessMsg == Event("auth_success", Undefined)
AuthFailedMsg ==
    Event("auth_failed", Obj("undefined", 0, "undefined", "Invalid password"))
BackendStatusAlwaysTrue(b) ==
    Event("backend_status", Obj("undefined", 0, "true", "undefined"))

BackendStatusMsg(b) ==
    Event("backend_status",
          Obj("undefined", 0, IF b THEN "true" ELSE "false", "undefined"))

VARIABLES
    conn,                  \* socket c: "fresh" (not yet accepted), "open", "closed"
    authenticatedClients,  \* the Set of line 17
    link,                  \* termuxSocket: "disconnected", "connecting", "connected"
    sendBuffer,            \* packets termuxSocket holds for the next connect
    crashed,               \* an exception escaped a handler: the process is gone
    sent,                  \* sent[c]: events the last handler emitted to socket c
    toBackend,             \* events the last step delivered to the backend
    last,                  \* the event the last handler ran for, with the
                           \* membership and link state it found
    nSucc, nFail,          \* per socket: auth_success and auth_failed
                           \* emitted to it since it was accepted
    opener,                \* who has sent new_session so far: 0 nobody,
                           \* c only socket c, -1 more than one socket
                           \* (in "owner" mode: new_session for session 1)
    dropped,               \* some authenticated control event found the link down
    skipReconnect,         \* the client socket has given up reconnecting
    attempts,              \* upstream connect attempts in flight
    termuxSockets,         \* client sockets connectToTermux() has created
    prevSid,               \* session id of the latest packet delivered to
                           \* the backend before the last step, -1 if none
    before,                \* the sockets still open that were members of
                           \* authenticatedClients when the link was last lost
    lastStatus,            \* per open socket: the connected field of the
                           \* latest backend_status it received before the
                           \* last step, "none" if there was none
    trace                  \* which history is recorded: "none", "drops"
                           \* (dropped), "openers" (opener: any session),
                           \* "owner" (opener: session 1 only), "order"
                           \* (prevSid), "outage" (before), "status"
                           \* (lastStatus)

vars == <<conn, authenticatedClients, link, sendBuffer, crashed, sent,
          toBackend, last, nSucc, nFail, opener, dropped,
          skipReconnect, attempts, termuxSockets, prevSid, before,
          lastStatus, trace>>

\* what only the upstream handlers and timers touch
upstream == <<link, skipReconnect, attempts, termuxSockets>>

NoSent == [c \in Conns |-> <<>>]

Handled(kind, c, d) ==
    [kind |-> kind, c |-> c, data |-> d,
     wasAuth |-> (c \in authenticatedClients), wasLink |-> link]

\* ---- helpers translated from the source ----------------------------------

\* io.emit reaches every socket connected to the server
IoSockets == {c \in Conns : conn[c] = "open"}

BroadcastAuthOnly(msg) ==
    [c \in Conns |-> IF c \in authenticatedClients /\ conn[c] = "open"
                     THEN <<msg>> ELSE <<>>]

BroadcastFirstOnly(msg) ==
    [c \in Conns |-> IF c \in IoSockets /\ \A d \in IoSockets : c <= d
                     THEN <<msg>> ELSE <<>>]

\* io.emit(name, data)
IoEmit(msg) == [c \in Conns |-> IF c \in IoSockets THEN <<msg>> ELSE <<>>]

PasswordOkAny(data) == data.password # "undefined"

PasswordOkWhenConnected(data) ==
    data.password = PASSWORD /\ link = "connected"

\* data.password === PASSWORD
PasswordOk(data) == data.password = PASSWORD

IsAuthenticatedOpen(c) == conn[c] = "open"

IsAuthenticatedOwner(c) == c \in authenticatedClients /\ opener \in {0, c}

\* authenticatedClients.has(socket.id)
IsAuthenticated(c) == c \in authenticatedClients

\* the reasons the client socket gives its 'disconnect' handler
DisconnectReasons == {"transport close", "io server disconnect"}

ReconnectDisabled == FALSE

ReconnectDueWhileConnecting == link # "connected" /\ ~skipReconnect

\* reconnection: true - the client socket's reconnect timer fires when the
\* link is down and the socket has not given up
ReconnectDue == link = "disconnected" /\ ~skipReconnect

TermuxConnectedOrConnecting == link # "disconnected"

TermuxConnectedAlways == TRUE

\* termuxSocket && termuxSocket.connected
TermuxConnected == link = "connected"

ForgetNothing(c) == authenticatedClients

ForgetAll(c) == {}

\* authenticatedClients.delete(socket.id), the socket's 'disconnect' handler
Forget(c) == authenticatedClients \ {c}

AuthFailedKeepOpen(c) ==
    /\ sent' = [NoSent EXCEPT ![c] = <<AuthFailedMsg>>]
    /\ nFail' = [nFail EXCEPT ![c] = @ + 1]
    /\ UNCHANGED <<conn, authenticatedClients>>

\* the else branch of 'authenticate': emit auth_failed, then socket.disconnect(),
\* which runs the socket's 'disconnect' handler before it returns
AuthFailed(c) ==
    /\ sent' = [NoSent EXCEPT ![c] = <<AuthFailedMsg>>]
    /\ nFail' = [nFail EXCEPT ![c] = @ + 1]
    /\ conn' = [conn EXCEPT ![c] = "closed"]
    /\ authenticatedClients' = Forget(c)

\* The history a step leaves behind, taken from what the step did; it is
\* written after the step's own assignments and read by no handler.
Record ==
    /\ prevSid' = IF trace = "order" /\ toBackend # <<>>
                  THEN toBackend[Len(toBackend)].data.session_id
                  ELSE prevSid
    /\ before' = {c \in (IF trace = "outage" /\ link = "connected"
                                /\ link' # link
                             THEN authenticatedClients ELSE before) :
                       conn'[c] = "open"}
    /\ lastStatus' =
          [c \in Conns |->
              IF trace # "status" \/ conn'[c] # "open" THEN "none"
              ELSE IF sent[c] # <<>> /\ sent[c][1].name = "backend_status"
                   THEN sent[c][1].data.connected
                   ELSE lastStatus[c]]

TermuxEmitTwice(name, data) ==
    /\ toBackend' = <<Event(name, data), Event(name, data)>>
    /\ UNCHANGED sendBuffer
TermuxEmitDeferInput(name, data) ==
    IF link = "connected" /\ name # "input"
    THEN /\ toBackend' = <<Event(name, data)>>
         /\ UNCHANGED sendBuffer
    ELSE /\ Len(sendBuffer) < MaxBuf
         /\ toBackend' = <<>>
         /\ sendBuffer' = Append(sendBuffer, Event(name, data))

\* termuxSocket.emit(name, data): the packet goes out when the client socket is
\* connected and is otherwise kept in its send buffer for the next connect
TermuxEmit(name, data) ==
    IF link = "connected"
    THEN /\ toBackend' = <<Event(name, data)>>
         /\ UNCHANGED sendBuffer
    ELSE /\ Len(sendBuffer) < MaxBuf
         /\ toBackend' = <<>>
         /\ sendBuffer' = Append(sendBuffer, Event(name, data))

\* the body shared by the five control handlers
Forward(c, name, data) ==
    /\ ~crashed
    /\ conn[c] = "open"
    /\ data \in SessionPayloads
    /\ last' = Handled(name, c, data)
    /\ sent' = NoSent
    /\ IF ~IsAuthenticated(c)
       THEN toBackend' = <<>> /\ UNCHANGED <<sendBuffer, dropped>>
       ELSE IF TermuxConnected
            THEN TermuxEmit(name, data) /\ UNCHANGED dropped
            ELSE /\ toBackend' = <<>>
                 /\ dropped' = (dropped \/ trace = "drops")
                 /\ UNCHANGED sendBuffer
    /\ UNCHANGED <<conn, authenticatedClients, crashed, nSucc, nFail,
                   upstream, trace>>
    /\ Record

\* ---- initial state: the module has been loaded ---------------------------
\* connectToTermux() has run, so the client socket is making its first attempt
Start(t) ==
    /\ trace = t
    /\ conn = [c \in Conns |-> "fresh"]
    /\ authenticatedClients = {}
    /\ link = "connecting"
    /\ sendBuffer = <<>>
    /\ crashed = FALSE
    /\ sent = NoSent
    /\ toBackend = <<>>
    /\ last = [kind |-> "start", c |-> 0, data |-> Undefined,
               wasAuth |-> FALSE, wasLink |-> "disconnected"]
    /\ nSucc = [c \in Conns |-> 0]
    /\ nFail = [c \in Conns |-> 0]
    /\ opener = 0
    /\ dropped = FALSE
    /\ skipReconnect = FALSE
    /\ attempts = 1
    /\ termuxSockets = 1
    /\ prevSid = -1
    /\ before = {}
    /\ lastStatus = [c \in Conns |-> "none"]

Init == Start("none")

\* the same program, recording which events were dropped
InitDrops == Start("drops")

\* the same program, recording who sent new_session
InitOpeners == Start("openers")

\* the same program, recording who sent new_session for session 1
InitOwner == Start("owner")

\* the same program, recording the session of the previous upstream packet
InitOrder == Start("order")

\* the same program, recording who was a member when the link was lost
InitOutage == Start("outage")

\* the same program, recording the latest backend_status of each socket
InitStatus == Start("status")

\* ---- downstream handlers -------------------------------------------------

\* The relay keeps no set of session ids: its only module state is
\* termuxSocket and authenticatedClients, and no handler records a session.
SessionRegistry == {}

ConnectionStartsLink(c) ==
    /\ ~crashed
    /\ conn[c] = "fresh"
    /\ \A d \in Conns : d < c => conn[d] # "fresh"
    /\ conn' = [conn EXCEPT ![c] = "open"]
    /\ last' = Handled("connection", c, Undefined)
    /\ sent' = NoSent
    /\ toBackend' = <<>>
    /\ link' = "connecting"
    /\ attempts' = attempts + 1
    /\ termuxSockets' = termuxSockets + 1
    /\ UNCHANGED <<authenticatedClients, sendBuffer, crashed,
                   nSucc, nFail, opener, dropped, trace, skipReconnect>>
    /\ Record

\* io.on('connection'): socket ids are fresh, taken here in increasing order
Connection(c) ==
    /\ ~crashed
    /\ conn[c] = "fresh"
    /\ \A d \in Conns : d < c => conn[d] # "fresh"
    /\ conn' = [conn EXCEPT ![c] = "open"]
    /\ last' = Handled("connection", c, Undefined)
    /\ sent' = NoSent
    /\ toBackend' = <<>>
    /\ UNCHANGED <<authenticatedClients, sendBuffer, crashed,
                   nSucc, nFail, opener, dropped, trace, upstream>>
    /\ Record

\* socket.on('authenticate')
Authenticate(c, data) ==
    /\ ~crashed
    /\ conn[c] = "open"
    /\ data \in AuthPayloads
    /\ nSucc[c] + nFail[c] < MaxAuth
    /\ last' = Handled("authenticate", c, data)
    /\ toBackend' = <<>>
    /\ IF ~data.defined
       THEN \* data.password throws a TypeError nothing catches
            /\ crashed' = TRUE
            /\ sent' = NoSent
            /\ UNCHANGED <<conn, authenticatedClients, nSucc, nFail>>
       ELSE /\ UNCHANGED crashed
            /\ IF PasswordOk(data)
               THEN /\ authenticatedClients' = authenticatedClients \cup {c}
                    /\ sent' = [NoSent EXCEPT ![c] = <<AuthSuccessMsg>>]
                    /\ nSucc' = [nSucc EXCEPT ![c] = @ + 1]
                    /\ UNCHANGED <<conn, nFail>>
               ELSE /\ AuthFailed(c)
                    /\ UNCHANGED nSucc
    /\ UNCHANGED <<sendBuffer, opener, dropped, trace, upstream>>
    /\ Record

\* socket.on('new_session')
NewSession(c, data) ==
    /\ Forward(c, "new_session", data)
    /\ opener' = IF trace = "openers"
                       \/ (trace = "owner" /\ data.session_id = 1)
                  THEN (IF opener \in {0, c} THEN c ELSE -1)
                  ELSE opener

InputIfAnnounced(c, data) ==
    IF opener # 0
    THEN Forward(c, "input", data) /\ UNCHANGED opener
    ELSE /\ ~crashed
         /\ conn[c] = "open"
         /\ data \in SessionPayloads
         /\ last' = Handled("input", c, data)
         /\ sent' = NoSent
         /\ toBackend' = <<>>
         /\ UNCHANGED <<conn, authenticatedClients, sendBuffer, crashed,
                        nSucc, nFail, opener, dropped, trace, upstream>>
         /\ Record

\* socket.on('input')
Input(c, data) == Forward(c, "input", data) /\ UNCHANGED opener

\* socket.on('resize')
Resize(c, data) == Forward(c, "resize", data) /\ UNCHANGED opener

\* socket.on('signal')
Signal(c, data) == Forward(c, "signal", data) /\ UNCHANGED opener

\* socket.on('close_session')
CloseSession(c, data) == Forward(c, "close_session", data) /\ UNCHANGED opener

DisconnectClosesSessions(c) ==
    /\ ~crashed
    /\ conn[c] = "open"
    /\ conn' = [conn EXCEPT ![c] = "closed"]
    /\ authenticatedClients' = Forget(c)
    /\ last' = Handled("disconnect", c, Undefined)
    /\ sent' = NoSent
    /\ toBackend' = IF IsAuthenticated(c) /\ TermuxConnected
                    THEN <<Event("close_session", EmptyObj)>> ELSE <<>>
    /\ UNCHANGED <<sendBuffer, crashed, nSucc, nFail,
                   opener, dropped, trace, upstream>>
    /\ Record

\* socket.on('disconnect'): the browser went away
Disconnect(c) ==
    /\ ~crashed
    /\ conn[c] = "open"
    /\ conn' = [conn EXCEPT ![c] = "closed"]
    /\ authenticatedClients' = Forget(c)
    /\ last' = Handled("disconnect", c, Undefined)
    /\ sent' = NoSent
    /\ toBackend' = <<>>
    /\ UNCHANGED <<sendBuffer, crashed, nSucc, nFail,
                   opener, dropped, trace, upstream>>
    /\ Record

\* ---- upstream handlers ---------------------------------------------------

\* termuxSocket.on('connect'): the attempt succeeded; the client socket first
\* flushes its send buffer, then the handler broadcasts the status
TermuxConnect ==
    /\ ~crashed
    /\ link = "connecting"
    /\ link' = "connected"
    /\ toBackend' = sendBuffer
    /\ sendBuffer' = <<>>
    /\ sent' = IoEmit(BackendStatusMsg(TRUE))
    /\ last' = Handled("termux_connect", 0, Undefined)
    /\ attempts' = attempts - 1
    /\ UNCHANGED <<conn, authenticatedClients, crashed, nSucc, nFail,
                   opener, dropped, trace, skipReconnect, termuxSockets>>
    /\ Record

\* the attempt failed: the client socket raises 'connect_error', for which
\* connectToTermux registers no handler
TermuxConnectError ==
    /\ ~crashed
    /\ link = "connecting"
    /\ link' = "disconnected"
    /\ sent' = NoSent
    /\ toBackend' = <<>>
    /\ last' = Handled("termux_connect_error", 0, Undefined)
    /\ attempts' = attempts - 1
    /\ UNCHANGED <<conn, authenticatedClients, sendBuffer, crashed,
                   nSucc, nFail, opener, dropped, trace, skipReconnect, termuxSockets>>
    /\ Record

TermuxDisconnectClears(reason) ==
    /\ ~crashed
    /\ link = "connected"
    /\ reason \in DisconnectReasons
    /\ link' = "disconnected"
    /\ skipReconnect' = (reason = "io server disconnect")
    /\ authenticatedClients' = {}
    /\ sent' = IoEmit(BackendStatusMsg(FALSE))
    /\ toBackend' = <<>>
    /\ last' = [Handled("termux_disconnect", 0, Undefined)
                   EXCEPT !.data.message = reason]
    /\ UNCHANGED <<conn, sendBuffer, crashed,
                   nSucc, nFail, opener, dropped, trace, attempts, termuxSockets>>
    /\ Record

\* termuxSocket.on('disconnect'): an established link was lost.  The client
\* socket reports why: after a loss of the transport it will reconnect, after
\* a disconnect packet from the backend ("io server disconnect") it will not,
\* unless the program calls termuxSocket.connect() - which this handler
\* does not
TermuxDisconnect(reason) ==
    /\ ~crashed
    /\ link = "connected"
    /\ reason \in DisconnectReasons
    /\ link' = "disconnected"
    /\ skipReconnect' = (reason = "io server disconnect")
    /\ sent' = IoEmit(BackendStatusMsg(FALSE))
    /\ toBackend' = <<>>
    /\ last' = [Handled("termux_disconnect", 0, Undefined)
                   EXCEPT !.data.message = reason]
    /\ UNCHANGED <<conn, authenticatedClients, sendBuffer, crashed,
                   nSucc, nFail, opener, dropped, trace, attempts, termuxSockets>>
    /\ Record

\* reconnection: true, reconnectionDelay: 1000 - the timer starts a new attempt
TermuxReconnect ==
    /\ ~crashed
    /\ ReconnectDue
    /\ link' = "connecting"
    /\ attempts' = attempts + 1
    /\ sent' = NoSent
    /\ toBackend' = <<>>
    /\ last' = Handled("termux_reconnect", 0, Undefined)
    /\ UNCHANGED <<conn, authenticatedClients, sendBuffer, crashed,
                   nSucc, nFail, opener, dropped, trace, skipReconnect, termuxSockets>>
    /\ Record

\* termuxSocket.on('output')
TermuxOutput(data) ==
    /\ ~crashed
    /\ link = "connected"
    /\ data \in SessionPayloads
    /\ sent' = IoEmit(Event("output", data))
    /\ toBackend' = <<>>
    /\ last' = Handled("output", 0, data)
    /\ UNCHANGED <<conn, authenticatedClients, sendBuffer, crashed,
                   nSucc, nFail, opener, dropped, trace, upstream>>
    /\ Record

Next ==
    \/ \E c \in Conns : Connection(c)
    \/ \E c \in Conns, d \in AuthPayloads : Authenticate(c, d)
    \/ \E c \in Conns, d \in SessionPayloads : NewSession(c, d)
    \/ \E c \in Conns, d \in SessionPayloads : Input(c, d)
    \/ \E c \in Conns, d \in SessionPayloads : Resize(c, d)
    \/ \E c \in Conns, d \in SessionPayloads : Signal(c, d)
    \/ \E c \in Conns, d \in SessionPayloads : CloseSession(c, d)
    \/ \E c \in Conns : Disconnect(c)
    \/ TermuxConnect
    \/ TermuxConnectError
    \/ \E r \in DisconnectReasons : TermuxDisconnect(r)
    \/ TermuxReconnect
    \/ \E d \in SessionPayloads : TermuxOutput(d)

Spec == Init /\ [][Next]_vars

DropSpec == InitDrops /\ [][Next]_vars

OpenerSpec == InitOpeners /\ [][Next]_vars

OwnerSpec == InitOwner /\ [][Next]_vars

OrderSpec == InitOrder /\ [][Next]_vars

OutageSpec == InitOutage /\ [][Next]_vars

StatusSpec == InitStatus /\ [][Next]_vars

\* The relay with its liveness assumptions: the reconnect timer of the client
\* socket fires (reconnectionDelay: 1000), and the backend is reachable, that
\* is, attempts that keep being made do not fail for ever.  Nothing is
\* assumed of the browsers: they may stay silent.
LiveSpec ==
    /\ Init
    /\ [][Next]_vars
    /\ WF_vars(TermuxReconnect)
    /\ SF_vars(TermuxConnect)

TypeOK ==
    /\ conn \in [Conns -> {"fresh", "open", "closed"}]
    /\ authenticatedClients \subseteq Conns
    /\ link \in {"disconnected", "connecting", "connected"}
    /\ crashed \in BOOLEAN
    /\ skipReconnect \in BOOLEAN
    /\ attempts \in Nat
    /\ termuxSockets \in Nat
    /\ prevSid \in {-1, 0} \cup Sessions
    /\ before \subseteq Conns
    /\ lastStatus \in [Conns -> {"none", "true", "false"}]
    /\ trace \in {"none", "drops", "openers", "owner", "order", "outage",
                  "status"}

\* ---- properties ----------------------------------------------------------

\* how many events named n the sequence q holds
Count(q, n) == Cardinality({i \in DOMAIN q : q[i].name = n})

\* C1 (reject-before-register): whatever reaches the upstream link was put
\* there by a control handler whose socket was in authenticatedClients when
\* the handler ran.
C1_RejectBeforeRegister ==
    toBackend # <<>> => (last.kind \in ControlEvents /\ last.wasAuth)

\* a control event is forwarded for an authenticated socket while another
\* open socket has not authenticated
C1_Witness ==
    /\ toBackend # <<>>
    /\ last.kind \in ControlEvents
    /\ last.wasAuth
    /\ \E d \in Conns : conn[d] = "open" /\ d \notin authenticatedClients

C3_SharedVisibility ==
    last.kind = "output" =>
        \A c \in authenticatedClients : sent[c] = <<Event("output", last.data)>>

\* socket a is the only one that ever sent new_session; b, which never did,
\* receives the output of a session
C3_Witness ==
    /\ last.kind = "output"
    /\ last.data.session_id \in Sessions
    /\ \E a, b \in authenticatedClients :
          /\ a # b
          /\ opener = a
          /\ sent[a] = <<Event("output", last.data)>>
          /\ sent[b] = <<Event("output", last.data)>>

\* C4: output is delivered only to sockets in authenticatedClients.
C4_OutputOnlyToAuthenticated ==
    \A c \in Conns : Count(sent[c], "output") > 0 => c \in authenticatedClients

\* C5: a socket that was sent auth_failed is closed and outside
\* authenticatedClients in every later state, also when it was a member
\* before, and nothing forwarded upstream comes from it.
C5_RejectedIsTerminal ==
    /\ \A c \in Conns :
          nFail[c] > 0 => (conn[c] = "closed" /\ c \notin authenticatedClients)
    /\ (toBackend # <<>> /\ last.c \in Conns) => nFail[last.c] = 0

\* a socket that had authenticated was rejected, and later another socket's
\* event is forwarded
C5_Witness ==
    /\ \E c \in Conns : nFail[c] = 1 /\ nSucc[c] > 0 /\ conn[c] = "closed"
    /\ toBackend # <<>>

\* C6 as claimed: no socket is ever sent more than one authentication
\* response, however many authenticate events it sends.
C6_AtMostOneResponse ==
    \A c \in Conns : nSucc[c] + nFail[c] <= 1

\* C6 amended: every authenticate event carrying a payload object is answered
\* by exactly one response, so a socket is sent one auth_success per correct
\* authenticate; it is sent at most one auth_failed, which closes it.
C6_OneResponsePerEvent ==
    /\ (last.kind = "authenticate" /\ last.data.defined) =>
          /\ Len(sent[last.c]) = 1
          /\ sent[last.c][1] \in {AuthSuccessMsg, AuthFailedMsg}
    /\ \A c \in Conns : nFail[c] <= 1 /\ (nFail[c] = 1 => conn[c] = "closed")

\* one socket has been sent two auth_success
C6_Witness ==
    \E c \in Conns : nSucc[c] >= 2 /\ last.kind = "authenticate" /\ last.c = c

\* C7: a control event of an authenticated socket that finds the link not
\* connected does nothing: no packet goes upstream or into the send buffer,
\* nothing is sent to any socket, the process does not crash, the sender
\* stays open and the link state is what it was.
C7_DropIsNoOp ==
    (last.kind \in ControlEvents /\ last.wasAuth /\ last.wasLink # "connected") =>
        /\ toBackend = <<>>
        /\ sendBuffer = <<>>
        /\ sent = NoSent
        /\ ~crashed
        /\ link = last.wasLink
        /\ conn[last.c] = "open"

\* an authenticated socket's event ran while the link was disconnected
C7_Witness ==
    /\ last.kind \in ControlEvents
    /\ last.wasAuth
    /\ last.wasLink = "disconnected"

\* C8: nothing is ever queued for the backend: the send buffer stays empty,
\* a (re)connect delivers nothing, and the backend only receives the event
\* of a control handler that ran while the link was connected.
C8_NeverQueued ==
    /\ sendBuffer = <<>>
    /\ last.kind = "termux_connect" => toBackend = <<>>
    /\ toBackend # <<>> =>
          /\ last.kind \in ControlEvents
          /\ last.wasLink = "connected"
          /\ toBackend = <<Event(last.kind, last.data)>>

\* an event was dropped while the link was down and the link has come up
\* since without delivering anything
C8_Witness ==
    /\ dropped
    /\ last.kind = "termux_connect"
    /\ toBackend = <<>>
    /\ authenticatedClients # {}

\* C9: each step that takes the link from connecting to connected emits
\* exactly one backend_status{connected:true} to every open socket.
C9_ConnectedBroadcast ==
    [][(link = "connecting" /\ link' = "connected") =>
          \A c \in Conns :
             conn[c] = "open" => sent'[c] = <<BackendStatusMsg(TRUE)>>]_vars

\* the link came up while an authenticated and an unauthenticated socket
\* were open, and both were told
C9_Witness ==
    /\ last.kind = "termux_connect"
    /\ \E a, b \in Conns :
          /\ a \in authenticatedClients /\ conn[a] = "open"
          /\ b \notin authenticatedClients /\ conn[b] = "open"
          /\ sent[a] = <<BackendStatusMsg(TRUE)>>
          /\ sent[b] = <<BackendStatusMsg(TRUE)>>

\* C10: each step that takes the link from connected to disconnected emits
\* exactly one backend_status{connected:false} to every open socket, closes
\* no socket and leaves the process running.
C10_DisconnectedBroadcast ==
    [][(link = "connected" /\ link' = "disconnected") =>
          /\ \A c \in Conns :
                conn[c] = "open" => sent'[c] = <<BackendStatusMsg(FALSE)>>
          /\ conn' = conn
          /\ ~crashed']_vars

\* the link was lost while an authenticated and an unauthenticated socket
\* were open, and both were told
C10_Witness ==
    /\ last.kind = "termux_disconnect"
    /\ ~crashed
    /\ \E a, b \in Conns :
          /\ a \in authenticatedClients /\ conn[a] = "open"
          /\ b \notin authenticatedClients /\ conn[b] = "open"
          /\ sent[a] = <<BackendStatusMsg(FALSE)>>
          /\ sent[b] = <<BackendStatusMsg(FALSE)>>

\* ---- the upstream link's life cycle ---------------------------------------

\* the link has just been lost with the transport
TransportLost ==
    /\ last.kind = "termux_disconnect"
    /\ last.data.message = "transport close"

\* every open socket was sent exactly the status b by the last handler
StatusBroadcast(b) ==
    \A c \in Conns : conn[c] = "open" => sent[c] = <<BackendStatusMsg(b)>>

C12_AlwaysReconnects ==
    (link = "disconnected" /\ ~crashed) ~> (link = "connecting" \/ crashed)

\* C13: a failed connect attempt (connecting -> disconnected) broadcasts
\* backend_status{connected:false} to every open socket.
C13_FailedAttemptBroadcast ==
    [][(link = "connecting" /\ link' = "disconnected") =>
          \A c \in Conns :
             conn[c] = "open" => sent'[c] = <<BackendStatusMsg(FALSE)>>]_vars

\* C14: at most one upstream connect attempt is in flight, exactly while the
\* link is connecting, and an attempt starts only from disconnected.
C14_OneAttemptInFlight ==
    /\ [](attempts <= 1 /\ (attempts = 1 <=> link = "connecting"))
    /\ [][attempts' > attempts => link = "disconnected"]_vars

\* the reconnect timer has started an attempt while browsers are
\* authenticated
C14_Witness ==
    /\ last.kind = "termux_reconnect"
    /\ attempts = 1
    /\ authenticatedClients # {}

\* C15: connectToTermux() runs once, so there is one client socket for the
\* life of the process, and no downstream handler (connection, authenticate,
\* control events, disconnect) changes anything of the upstream link.
C15_OneUpstreamLink ==
    /\ [](termuxSockets = 1)
    /\ [][last'.c \in Conns => UNCHANGED upstream]_vars

\* an authenticated browser has disconnected while the link was connected
C15_Witness ==
    /\ last.kind = "disconnect"
    /\ last.wasAuth
    /\ link = "connected"
    /\ termuxSockets = 1

\* C16: authenticatedClients is exactly the set of open sockets that were
\* sent auth_success; a socket enters it only in its own authenticate handler
\* with the correct password and leaves it only when it is closed.
C16_AuthorizationSetExact ==
    /\ [](authenticatedClients =
             {c \in Conns : conn[c] = "open" /\ nSucc[c] > 0})
    /\ [][\A c \in Conns :
            /\ (c \notin authenticatedClients /\ c \in authenticatedClients') =>
                  /\ last'.kind = "authenticate"
                  /\ last'.c = c
                  /\ last'.data.password = PASSWORD
            /\ (c \in authenticatedClients /\ c \notin authenticatedClients') =>
                  (conn[c] = "open" /\ conn'[c] = "closed")]_vars

\* one socket is a member while another, which had authenticated, has left
\* the set by disconnecting
C16_Witness ==
    \E a, b \in Conns :
       /\ a \in authenticatedClients
       /\ conn[b] = "closed" /\ nSucc[b] > 0 /\ nFail[b] = 0
       /\ b \notin authenticatedClients

\* C18: after new_session{s} from an authenticated socket the Session
\* Registry contains s.
C18_RegistryContains ==
    (last.kind = "new_session" /\ last.wasAuth
        /\ last.data.session_id \in Sessions) =>
        last.data.session_id \in SessionRegistry

\* C19 (verbatim, exactly once): a control event of an authenticated socket
\* handled while the link is connected puts exactly one event upstream, with
\* the same name and the same payload; nothing else ever goes upstream.
C19_VerbatimOnce ==
    /\ (last.kind \in ControlEvents /\ last.wasAuth
           /\ last.wasLink = "connected") =>
          toBackend = <<Event(last.kind, last.data)>>
    /\ \A i \in DOMAIN toBackend :
          /\ i = 1
          /\ last.kind \in ControlEvents
          /\ toBackend[i] = Event(last.kind, last.data)

\* a resize naming session 2 went upstream unchanged
C19_Witness ==
    /\ last.kind = "resize"
    /\ last.data.session_id = 2
    /\ toBackend = <<Event("resize", last.data)>>

\* C20: a control event of a socket outside authenticatedClients changes
\* nothing: no packet upstream or in the send buffer, nothing sent to any
\* socket, the sender stays open, and authenticatedClients and the upstream
\* link are as before (the relay keeps no session registry to change).
C20_UnauthenticatedIgnored ==
    [][(last'.kind \in ControlEvents /\ ~last'.wasAuth) =>
          /\ toBackend' = <<>>
          /\ sent' = NoSent
          /\ conn'[last'.c] = "open"
          /\ UNCHANGED <<conn, authenticatedClients, sendBuffer, crashed,
                         upstream>>]_vars

\* an unauthenticated socket's close_session was handled while the link was
\* connected and another socket is authenticated
C20_Witness ==
    /\ last.kind = "close_session"
    /\ ~last.wasAuth
    /\ last.wasLink = "connected"
    /\ conn[last.c] = "open"
    /\ toBackend = <<>>
    /\ authenticatedClients # {}

\* C21: an authenticate that is rejected touches its sender only: every other
\* socket keeps its open/closed state and its membership or non-membership
\* in authenticatedClients, the upstream link and its send buffer are as
\* before, and the process keeps running.
C21_FailureIsLocal ==
    [][(last'.kind = "authenticate" /\ sent'[last'.c] = <<AuthFailedMsg>>) =>
          /\ \A d \in Conns \ {last'.c} :
                /\ conn'[d] = conn[d]
                /\ (d \in authenticatedClients') = (d \in authenticatedClients)
          /\ UNCHANGED <<upstream, sendBuffer, crashed>>]_vars

\* a socket has just been rejected while another open socket is a member and
\* the link is connected
C21_Witness ==
    /\ last.kind = "authenticate"
    /\ sent[last.c] = <<AuthFailedMsg>>
    /\ link = "connected"
    /\ \E d \in authenticatedClients : d # last.c /\ conn[d] = "open"

\* the last event lacked a field its handler needs: an authenticate without
\* payload or without password, a control event without session_id
LacksRequiredField ==
    \/ last.kind = "authenticate" /\ last.data.password = "undefined"
    \/ last.kind \in ControlEvents /\ last.data.session_id = 0

\* C22: an event lacking a required field is silently ignored: nothing goes
\* upstream, nothing is answered, the sender stays open with the membership
\* it had, and the process does not crash.
C22_MalformedIgnored ==
    LacksRequiredField =>
        /\ ~crashed
        /\ toBackend = <<>>
        /\ sent = NoSent
        /\ conn[last.c] = "open"
        /\ (last.c \in authenticatedClients) = last.wasAuth

\* C23 (client state survives upstream outages): no change of the upstream
\* link changes authenticatedClients or the set of open sockets; so a socket
\* that was a member when the link was lost and has stayed open is a member
\* still, and its control events are forwarded once the link is connected.
C23_ClientStateSurvives ==
    /\ [][link' # link => UNCHANGED <<conn, authenticatedClients>>]_vars
    /\ [](\A c \in before : conn[c] = "open" => c \in authenticatedClients)
    /\ []((last.kind \in ControlEvents /\ last.c \in before
             /\ last.wasLink = "connected") =>
            toBackend = <<Event(last.kind, last.data)>>)

\* a socket that was a member when the link was lost has a control event
\* forwarded after the reconnect, having authenticated exactly once
C23_Witness ==
    /\ last.kind \in ControlEvents
    /\ last.c \in before
    /\ toBackend = <<Event(last.kind, last.data)>>
    /\ nSucc[last.c] = 1
    /\ nFail[last.c] = 0

\* the changes the upstream link can make
LinkTransitions ==
    {<<"disconnected", "connecting">>, <<"connecting", "connected">>,
     <<"connecting", "disconnected">>, <<"connected", "disconnected">>}

\* C24: the link is always disconnected, connecting or connected; it changes
\* only along LinkTransitions (never from disconnected straight to
\* connected), and only in steps of the upstream socket, never in a handler
\* of a downstream event.
C24_LinkStateMachine ==
    /\ [](link \in {"disconnected", "connecting", "connected"})
    /\ [][link' # link =>
            /\ <<link, link'>> \in LinkTransitions
            /\ last'.c = 0]_vars

\* a connect attempt has just failed while an authenticated socket is open
C24_Witness ==
    /\ last.kind = "termux_connect_error"
    /\ last.wasLink = "connecting"
    /\ link = "disconnected"
    /\ \E c \in authenticatedClients : conn[c] = "open"

\* C25 (per-session ordering): control events of one session go upstream in
\* the order the relay received them.  A packet reaches the backend either in
\* the step of its own handler, and then no packet of the same session
\* received earlier is still waiting in the send buffer, or when the send
\* buffer is flushed, in the order it was filled.
C25_PerSessionOrder ==
    [][toBackend' # <<>> =>
          \/ /\ toBackend' = sendBuffer
             /\ sendBuffer' = <<>>
          \/ /\ last'.kind \in ControlEvents
             /\ toBackend' = <<Event(last'.kind, last'.data)>>
             /\ sendBuffer' = sendBuffer
             /\ \A j \in DOMAIN sendBuffer :
                   sendBuffer[j].data.session_id # last'.data.session_id]_vars

\* a close_session went upstream after an earlier packet of the same session
C25_Witness ==
    /\ last.kind = "close_session"
    /\ toBackend = <<Event("close_session", last.data)>>
    /\ prevSid \in Sessions
    /\ last.data.session_id = prevSid

\* C26: input, resize and signal of an authenticated socket are forwarded
\* while the link is connected, whether or not any new_session ever announced
\* their session; the relay keeps no registry these handlers could consult.
C26_NoAnnouncementNeeded ==
    (last.kind \in {"input", "resize", "signal"} /\ last.wasAuth
        /\ last.wasLink = "connected") =>
        /\ toBackend = <<Event(last.kind, last.data)>>
        /\ sent = NoSent

\* an input naming a session went upstream although nobody has ever sent
\* new_session
C26_Witness ==
    /\ last.kind = "input"
    /\ last.data.session_id \in Sessions
    /\ opener = 0
    /\ toBackend = <<Event("input", last.data)>>

\* C27 (no session ownership): a control event for session 1 sent by an
\* authenticated socket other than the one that sent new_session for it is
\* forwarded like any other: the packet upstream is the event's name and
\* payload and tells nothing of the sender.
C27_NoOwnership ==
    (last.kind \in ControlEvents /\ last.wasAuth /\ last.wasLink = "connected"
        /\ last.data.session_id = 1 /\ opener \notin {0, last.c}) =>
        toBackend = <<Event(last.kind, last.data)>>

\* socket opener alone sent new_session for session 1, and another socket's
\* close_session for session 1 went upstream
C27_Witness ==
    /\ opener \in Conns
    /\ last.c \in Conns \ {opener}
    /\ last.kind = "close_session"
    /\ last.data.session_id = 1
    /\ toBackend = <<Event("close_session", last.data)>>

\* C28: the disconnect of a downstream socket puts nothing upstream and
\* sends nothing to any socket; it removes that socket from
\* authenticatedClients and marks it closed, and leaves every other socket,
\* the send buffer and the upstream link as they were.
C28_DisconnectIsLocal ==
    [][last'.kind = "disconnect" =>
          /\ toBackend' = <<>>
          /\ sent' = NoSent
          /\ authenticatedClients' = authenticatedClients \ {last'.c}
          /\ conn' = [conn EXCEPT ![last'.c] = "closed"]
          /\ UNCHANGED <<sendBuffer, crashed, upstream>>]_vars

\* the one socket that sent new_session has disconnected as a member while
\* the link was connected and another socket is a member
C28_Witness ==
    /\ last.kind = "disconnect"
    /\ last.wasAuth
    /\ last.wasLink = "connected"
    /\ opener = last.c
    /\ toBackend = <<>>
    /\ authenticatedClients # {}

\* the connected field of the latest backend_status socket c has received,
\* the last step included
LatestStatus(c) ==
    IF sent[c] # <<>> /\ sent[c][1].name = "backend_status"
    THEN sent[c][1].data.connected
    ELSE lastStatus[c]

\* C29: the backend_status events an open socket receives alternate between
\* connected:true and connected:false (one just received differs from the
\* one received before it), and the latest one it received tells whether the
\* upstream link is connected now.
C29_StatusAlternates ==
    \A c \in Conns :
       conn[c] = "open" =>
          /\ LatestStatus(c) # "none" =>
                ((LatestStatus(c) = "true") = (link = "connected"))
          /\ (sent[c] # <<>> /\ sent[c][1].name = "backend_status") =>
                sent[c][1].data.connected # lastStatus[c]

\* a member that had last received connected:false has just received
\* connected:true
C29_Witness ==
    /\ last.kind = "termux_connect"
    /\ \E c \in authenticatedClients :
          /\ lastStatus[c] = "false"
          /\ sent[c] = <<BackendStatusMsg(TRUE)>>

\* what 'authenticate' answers to a payload object, and whether the sender is
\* a member afterwards, read off the password alone
AuthOutcome(pw) ==
    IF pw = PASSWORD THEN <<AuthSuccessMsg, TRUE>> ELSE <<AuthFailedMsg, FALSE>>

\* C30: the outcome of an authenticate event depends on its payload alone,
\* not on the link, on other sockets or on what the sender did before: with a
\* payload object the answer and the sender's membership are
\* AuthOutcome(password); without one the process crashes unanswered.
C30_CredentialAlone ==
    last.kind = "authenticate" =>
        IF last.data.defined
        THEN /\ ~crashed
             /\ <<sent[last.c][1], last.c \in authenticatedClients>>
                   = AuthOutcome(last.data.password)
             /\ Len(sent[last.c]) = 1
        ELSE crashed /\ sent = NoSent

\* a member sent a wrong password while the link was down and another socket
\* was a member
C30_Witness ==
    /\ last.kind = "authenticate"
    /\ last.wasAuth
    /\ last.wasLink = "disconnected"
    /\ last.data.password = "wrong"
    /\ \E d \in authenticatedClients : d # last.c

====
